---- MODULE Spec2Model ----
(***************************************************************************)
(* gantt.py: one render pass of the milestone timeline.                    *)
(*   get_notion_database_data -> process_notion_data ->                    *)
(*   create_timeline_chart (get_descendant_end_details per top-level task) *)
(*   -> st.plotly_chart with a dynamic height.                             *)
(*                                                                         *)
(* Encoding of Python values:                                              *)
(*   None / NaT      the number 0 (ids and day numbers start at 1)         *)
(*   a timestamp     its day number (see to_datetime)                      *)
(*   a DataFrame     the sequence of its rows, in row order                *)
(*   a dict          a function on its key set (key order kept apart where *)
(*                   the code reads it)                                    *)
(*   an uncaught exception: pc = "crashed", exc = "<Type>@<line>"          *)
(* The literals of the source "이름 없음" and "미정" are written           *)
(* "unnamed" and "undetermined". The colour table (lines 178-188) and the  *)
(* texts of the points (lines 230-245) are left out: no property reads     *)
(* them.                                                                   *)
(***************************************************************************)
EXTENDS Integers, Sequences, FiniteSets, TLC

VARIABLES
    db,                 \* the database: the page responses the queries get, by cursor
    pc,                 \* position of the render pass
    start_cursor,       \* get_notion_database_data: cursor (0 is None)
    all_results,        \* get_notion_database_data: pages gathered so far
    n_queries,          \* calls of notion.databases.query
    messages,           \* st.error / st.info / st.warning / st.markdown / st.plotly_chart, in order
    raw_notion_data,    \* __main__: what the fetch returned
    df,                 \* __main__: df_processed
    exc,                \* the uncaught exception, "none" when there is none
    top_level_tasks,    \* create_timeline_chart
    parent_child_map,   \* create_timeline_chart
    collected,          \* create_timeline_chart: descendant_details per top-level task
    x_range,            \* create_timeline_chart: <<min_date, max_date>> (<<0,0>>: now -/+ 30 days)
    y_axis_map,         \* create_timeline_chart
    y_tickvals,
    y_ticktext,
    y_range,            \* yaxis.range = <<y_range_min, y_range_max>>
    traces,             \* fig.add_trace calls, in order
    dynamic_height      \* __main__

vars == <<db, pc, start_cursor, all_results, n_queries, messages, raw_notion_data,
          df, exc, top_level_tasks, parent_child_map, collected, x_range,
          y_axis_map, y_tickvals, y_ticktext, y_range, traces, dynamic_height>>

\* ---------------------------------------------------------------- bounds
MaxPages == 3       \* pages of the database
MaxTasks == 3       \* records of a drawn record list

\* ------------------------------------------------------ program constants
None == 0
NaT == 0
Unnamed == "unnamed"
Undetermined == "undetermined"
y_axis_spacing_factor == 20
height_per_actual_category == 50
min_chart_height == 250

Max(a, b) == IF a >= b THEN a ELSE b

\* ------------------------------------------------------------ raw records
\* One Notion page. name_prop / date_prop / status_prop / relation are the four
\* properties process_notion_data reads:
\*   name_prop   [kind: "absent" (no such property) | "null" (the property is null)
\*                      | "title", title: the plain_text of each title segment]
\*   date_prop   "absent" (no property, or date: null) or the text of date.start
\*   status_prop [type: "status" | "select" | "absent",
\*                status, select: "absent" (no such key) | "null" | the name]
\*   relation    the ids of the relation list (<<>>: no property or an empty list)
Item(id, name_prop, date_prop, status_prop, relation) ==
    [id |-> id, name_prop |-> name_prop, date_prop |-> date_prop,
     status_prop |-> status_prop, relation |-> relation]

Title(text) == [kind |-> "title", title |-> <<text>>]
EmptyTitle == [kind |-> "title", title |-> <<>>]
AbsentTitle == [kind |-> "absent", title |-> <<>>]
NullTitle == [kind |-> "null", title |-> <<>>]

StatusOk(name) == [type |-> "status", status |-> name, select |-> "absent"]
SelectOk(name) == [type |-> "select", status |-> "absent", select |-> name]
StatusAbsent == [type |-> "absent", status |-> "absent", select |-> "absent"]
SelectNull == [type |-> "select", status |-> "absent", select |-> "null"]
StatusMismatch == [type |-> "status", status |-> "absent", select |-> "Done"]

Rel(p) == IF p = None THEN <<>> ELSE <<p>>

\* ------------------------------------------------- get_notion_database_data
OkPage(results, has_more) == [ok |-> TRUE, results |-> results, has_more |-> has_more]
FailPage == [ok |-> FALSE, results |-> <<>>, has_more |-> FALSE]

\* the page the query at start_cursor gets (None is the first page)
Response(cursor) == db[cursor + 1]

\* faulty variant of OnQueryException: the pages gathered so far are returned
OnQueryException_partial(results) == results
\* lines 47-50: what the function returns when a query raises
OnQueryException(results) == <<>>

\* lines 31-46 and 51: one pass of the loop whose query returns
Query ==
    /\ pc = "fetch"
    /\ Response(start_cursor).ok
    /\ n_queries' = n_queries + 1
    /\ all_results' = all_results \o Response(start_cursor).results
    /\ IF ~Response(start_cursor).has_more
       THEN /\ pc' = "fetched"
            /\ raw_notion_data' = all_results'
            /\ UNCHANGED start_cursor
       ELSE /\ start_cursor' = start_cursor + 1
            /\ UNCHANGED <<pc, raw_notion_data>>
    /\ UNCHANGED <<db, messages, df, exc, top_level_tasks, parent_child_map, collected,
                   x_range, y_axis_map, y_tickvals, y_ticktext, y_range, traces,
                   dynamic_height>>

\* lines 31-40 and 47-50: the pass of the loop whose query raises
QueryFail ==
    /\ pc = "fetch"
    /\ ~Response(start_cursor).ok
    /\ n_queries' = n_queries + 1
    /\ messages' = Append(messages, "error")
    /\ raw_notion_data' = OnQueryException(all_results)
    /\ pc' = "fetched"
    /\ UNCHANGED <<db, start_cursor, all_results, df, exc, top_level_tasks,
                   parent_child_map, collected, x_range, y_axis_map, y_tickvals,
                   y_ticktext, y_range, traces, dynamic_height>>

\* ------------------------------------------------------ process_notion_data
\* line 66: properties.get(name, {}).get("title", [])
NameProp(item) == IF item.name_prop.kind = "absent" THEN <<>> ELSE item.name_prop.title

\* line 67
ProjectName(item) == IF NameProp(item) # <<>> THEN NameProp(item)[1] ELSE Unnamed

\* faulty variant of IsExcluded: no record is skipped
IsExcluded_never(project_name) == FALSE
\* line 70: the record is skipped
IsExcluded(project_name) == project_name = Unnamed

\* lines 74-75: None, or the text of date.start
EndDate(item) == IF item.date_prop = "absent" THEN "None" ELSE item.date_prop

\* line 99: pd.to_datetime(errors='coerce'); a text that is no date becomes NaT
ToDatetime(text) ==
    CASE text = "2024-01-10" -> 1
      [] text = "2024-02-01" -> 2
      [] text = "2024-03-15" -> 3
      [] OTHER -> NaT

\* lines 79-80: payload.get("name") of status_prop.get(key, {}); "None" is Python's None
PayloadName(payload) == IF payload = "absent" THEN "None" ELSE payload
Status(status_prop) ==
    IF status_prop.type = "status" THEN PayloadName(status_prop.status)
    ELSE IF status_prop.type = "select" THEN PayloadName(status_prop.select)
    ELSE Undetermined

\* lines 79-80: None.get("name") when the payload the type tag names is null
StatusRaises(status_prop) ==
    \/ status_prop.type = "status" /\ status_prop.status = "null"
    \/ status_prop.type = "select" /\ status_prop.select = "null"

\* lines 83-84
ParentId(item) == IF item.relation # <<>> THEN item.relation[1] ELSE None

\* lines 87-93
ProcessedItem(item) ==
    [id |-> item.id, name |-> ProjectName(item), date |-> EndDate(item),
     status |-> Status(item.status_prop), parent |-> ParentId(item)]

\* lines 61-93: the loop from record i on; the first exception ends it
RECURSIVE ProcessLoop(_, _, _)
ProcessLoop(notion_pages, i, processed_items) ==
    IF i > Len(notion_pages) THEN [exc |-> "none", items |-> processed_items]
    ELSE LET item == notion_pages[i] IN
         IF item.name_prop.kind = "null"
         THEN [exc |-> "AttributeError@66", items |-> processed_items]
         ELSE IF IsExcluded(ProjectName(item))
         THEN ProcessLoop(notion_pages, i + 1, processed_items)
         ELSE IF StatusRaises(item.status_prop)
         THEN [exc |-> "AttributeError@79", items |-> processed_items]
         ELSE ProcessLoop(notion_pages, i + 1, Append(processed_items, ProcessedItem(item)))

\* lines 96-101: pd.DataFrame(processed_items) has no column when the list is empty,
\* and df["종료일"] then raises KeyError
ProcessNotionData(notion_pages) ==
    LET r == ProcessLoop(notion_pages, 1, <<>>) IN
    IF r.exc # "none" THEN [exc |-> r.exc, df |-> <<>>]
    ELSE IF r.items = <<>> THEN [exc |-> "KeyError@99", df |-> <<>>]
    ELSE [exc |-> "none",
          df |-> [k \in 1..Len(r.items) |->
                    [r.items[k] EXCEPT !.date = ToDatetime(r.items[k].date)]]]

\* lines 312-316 and 350-352: __main__ after the fetch
Process ==
    /\ pc = "fetched"
    /\ IF raw_notion_data = <<>>
       THEN /\ messages' = Append(messages, "info")
            /\ pc' = "done"
            /\ UNCHANGED <<df, exc>>
       ELSE LET r == ProcessNotionData(raw_notion_data) IN
            /\ exc' = r.exc
            /\ df' = r.df
            /\ pc' = IF r.exc # "none" THEN "crashed" ELSE "processed"
            /\ UNCHANGED messages
    /\ UNCHANGED <<db, start_cursor, all_results, n_queries, raw_notion_data,
                   top_level_tasks, parent_child_map, collected, x_range, y_axis_map,
                   y_tickvals, y_ticktext, y_range, traces, dynamic_height>>

\* ---------------------------------------------- get_descendant_end_details
\* df['id'].values
IdsOf(rows) == {rows[k].id : k \in 1..Len(rows)}

\* no two rows (records) of one id
UniqueIds(rows) == \A a, b \in 1..Len(rows) : a # b => rows[a].id # rows[b].id

\* line 117: df_all_tasks_indexed.loc[[child_id]], every row of that id, in row order
Loc(rows, id) == SelectSeq(rows, LAMBDA row : row.id = id)

\* variant of IsValidDetail that also asks for a status, as the stricter policy does
IsValidDetail_strict(child_task) ==
    /\ child_task # <<>>
    /\ child_task[1].date # NaT
    /\ child_task[1].status # Undetermined
\* line 123: the child contributes a point
IsValidDetail(child_task) == child_task # <<>> /\ child_task[1].date # NaT

\* lines 124-128; id is not in the code's dict: it records which task the point is of
Detail(child_id, child_task) ==
    [id |-> child_id, date |-> child_task[1].date, name |-> child_task[1].name,
     status |-> child_task[1].status]

\* The interpreter ends a recursion at sys.getrecursionlimit() frames with
\* RecursionError. A call deeper than the table has rows has entered some task
\* twice and recurses without end, so the model raises there.
RecursionLimit(rows) == Len(rows) + 1

\* the record of one call: task_id is the task the collection was started at
Called(task_id, result) ==
    [task_id |-> task_id, raised |-> result.raised, details |-> result.details,
     visited |-> result.visited]

NoDetails == [raised |-> FALSE, details |-> <<>>, visited |-> <<>>]
Raised == [raised |-> TRUE, details |-> <<>>, visited |-> <<>>]

\* lines 104-132. visited lists the child ids in the order line 114 reaches them.
RECURSIVE GetDescendantEndDetails(_, _, _, _)
RECURSIVE CollectChildren(_, _, _, _, _, _)
GetDescendantEndDetails(task_id, rows, pcm, depth) ==
    IF depth > RecursionLimit(rows) THEN Raised
    ELSE IF task_id \notin DOMAIN pcm THEN NoDetails
    ELSE CollectChildren(pcm[task_id], 1, rows, pcm, depth, NoDetails)

\* lines 114-130: the loop over the children, from the k-th on
CollectChildren(children, k, rows, pcm, depth, acc) ==
    IF k > Len(children) THEN acc
    ELSE LET child_id == children[k]
             child_task == Loc(rows, child_id)
             own == IF IsValidDetail(child_task)
                    THEN <<Detail(child_id, child_task)>> ELSE <<>>
             sub == GetDescendantEndDetails(child_id, rows, pcm, depth + 1)
         IN IF sub.raised THEN Raised
            ELSE CollectChildren(children, k + 1, rows, pcm, depth,
                     [raised |-> FALSE,
                      details |-> acc.details \o own \o sub.details,
                      visited |-> acc.visited \o <<child_id>> \o sub.visited])

\* ---------------------------------------------------- create_timeline_chart
\* faulty variant of IsTopLevel: the filter of line 147 is forgotten
IsTopLevel_all(row) == TRUE
\* line 147
IsTopLevel(row) == row.parent = None

TopLevel(rows) == SelectSeq(rows, IsTopLevel)

\* Python's order of the names the model uses (upper case sorts before lower)
NameOrd(name) ==
    CASE name = "Alpha" -> 1
      [] name = "Beta" -> 2
      [] name = "Design" -> 3
      [] name = "Launch" -> 4
      [] OTHER -> 5

\* line 150: sort_values(by=name), whose default sort is not stable: rows of one
\* name come out in any order
SortedByName(rows) ==
    LET n == Len(rows)
        perms == {q \in [1..n -> 1..n] :
                    /\ \A a, b \in 1..n : a # b => q[a] # q[b]
                    /\ \A a \in 1..n : a < n =>
                          NameOrd(rows[q[a]].name) <= NameOrd(rows[q[a + 1]].name)}
    IN {[k \in 1..n |-> rows[q[k]]] : q \in perms}

\* line 159: parent_child_map.setdefault(parent, []).append(id)
SetdefaultAppend(pcm, key, value) ==
    [k \in DOMAIN pcm \cup {key} |->
        IF k = key THEN (IF key \in DOMAIN pcm THEN pcm[key] ELSE <<>>) \o <<value>>
        ELSE pcm[k]]

\* line 158
IsChildRow(row, rows) == row.parent # None /\ row.parent \in IdsOf(rows)

\* lines 156-159, from row i on
RECURSIVE BuildParentChildMap(_, _, _)
BuildParentChildMap(rows, i, pcm) ==
    IF i > Len(rows) THEN pcm
    ELSE BuildParentChildMap(rows, i + 1,
             IF IsChildRow(rows[i], rows)
             THEN SetdefaultAppend(pcm, rows[i].parent, rows[i].id)
             ELSE pcm)

EmptyDict == [k \in {} |-> <<>>]

\* lines 318-330 of __main__ and 146-162: the top-level tasks and the map
BuildIndex ==
    /\ pc = "processed"
    /\ IF df = <<>>
       THEN /\ messages' = Append(messages, "warning")
            /\ pc' = "done"
            /\ UNCHANGED <<top_level_tasks, parent_child_map>>
       ELSE /\ messages' = Append(messages, "markdown")
            /\ top_level_tasks' \in SortedByName(TopLevel(df))
            /\ parent_child_map' = BuildParentChildMap(df, 1, EmptyDict)
            /\ pc' = "indexed"
    /\ UNCHANGED <<db, start_cursor, all_results, n_queries, raw_notion_data, df, exc,
                   collected, x_range, y_axis_map, y_tickvals, y_ticktext, y_range,
                   traces, dynamic_height>>

\* line 167 (and 183, 221): the collection started at the k-th top-level task
DescendantDetails(k) ==
    GetDescendantEndDetails(top_level_tasks[k].id, df, parent_child_map, 1)

RECURSIVE Concat(_)
Concat(seqs) == IF seqs = <<>> THEN <<>> ELSE Head(seqs) \o Concat(Tail(seqs))

SeqMin(dates) == CHOOSE d \in {dates[k] : k \in 1..Len(dates)} :
                    \A k \in 1..Len(dates) : d <= dates[k]
SeqMax(dates) == CHOOSE d \in {dates[k] : k \in 1..Len(dates)} :
                    \A k \in 1..Len(dates) : d >= dates[k]

\* lines 171-176: the range of the dates, or now -/+ 30 days when there is none
DateRange(all_descendant_end_dates) ==
    LET valid_end_dates == SelectSeq(all_descendant_end_dates, LAMBDA d : d # NaT) IN
    IF valid_end_dates = <<>> THEN [default |-> TRUE, min |-> NaT, max |-> NaT]
    ELSE [default |-> FALSE, min |-> SeqMin(valid_end_dates),
          max |-> SeqMax(valid_end_dates)]

\* lines 164-176: the collection for every top-level task; a RecursionError of
\* one of them leaves create_timeline_chart and the script
CollectAll ==
    /\ pc = "indexed"
    /\ LET results == [k \in 1..Len(top_level_tasks) |-> DescendantDetails(k)] IN
       IF \E k \in 1..Len(results) : results[k].raised
       THEN /\ pc' = "crashed"
            /\ exc' = "RecursionError@130"
            /\ UNCHANGED <<collected, x_range>>
       ELSE /\ collected' = [k \in 1..Len(results) |->
                                Called(top_level_tasks[k].id, results[k])]
            /\ x_range' = DateRange(Concat([k \in 1..Len(results) |->
                              [j \in 1..Len(results[k].details) |->
                                  results[k].details[j].date]]))
            /\ pc' = "collected"
            /\ UNCHANGED exc
    /\ UNCHANGED <<db, start_cursor, all_results, n_queries, messages, raw_notion_data,
                   df, top_level_tasks, parent_child_map, y_axis_map, y_tickvals,
                   y_ticktext, y_range, traces, dynamic_height>>

\* line 197: {name: i * y_axis_spacing_factor for i, name in enumerate(names)};
\* a name that comes again keeps its key and takes the later value
YAxisMap(names) ==
    [name \in {names[k] : k \in 1..Len(names)} |->
        ((CHOOSE k \in 1..Len(names) :
            names[k] = name /\ \A j \in 1..Len(names) : names[j] = name => j <= k) - 1)
        * y_axis_spacing_factor]

\* the keys of the dict in insertion order: each name where it first comes
RECURSIVE Keys(_, _)
Keys(names, i) ==
    IF i > Len(names) THEN <<>>
    ELSE IF \E j \in 1..(i - 1) : names[j] = names[i] THEN Keys(names, i + 1)
    ELSE <<names[i]>> \o Keys(names, i + 1)

\* lines 205-211
YRange(tickvals) ==
    IF tickvals = <<>> THEN <<1, 0>>
    ELSE <<tickvals[Len(tickvals)] + 1 * y_axis_spacing_factor,
           tickvals[1] - 1 * y_axis_spacing_factor>>

\* lines 194-211
Layout ==
    /\ pc = "collected"
    /\ LET names == [k \in 1..Len(top_level_tasks) |-> top_level_tasks[k].name]
           ticktext == Keys(names, 1)
       IN /\ y_axis_map' = YAxisMap(names)
          /\ y_ticktext' = ticktext
          /\ y_tickvals' = [k \in 1..Len(ticktext) |-> YAxisMap(names)[ticktext[k]]]
          /\ y_range' = YRange(y_tickvals')
    /\ pc' = "laid_out"
    /\ UNCHANGED <<db, start_cursor, all_results, n_queries, messages, raw_notion_data,
                   df, exc, top_level_tasks, parent_child_map, collected, x_range,
                   traces, dynamic_height>>

\* line 225: list.sort(key=date), which is stable: insert d behind the dates <= its own
RECURSIVE InsertByDate(_, _)
InsertByDate(sorted, d) ==
    IF sorted = <<>> THEN <<d>>
    ELSE IF Head(sorted).date <= d.date THEN <<Head(sorted)>> \o InsertByDate(Tail(sorted), d)
    ELSE <<d>> \o sorted

RECURSIVE SortByDate(_, _, _)
SortByDate(details, i, sorted) ==
    IF i > Len(details) THEN sorted
    ELSE SortByDate(details, i + 1, InsertByDate(sorted, details[i]))

\* lines 216-267, from the k-th top-level task on. root is not in the code's trace:
\* it records which task the trace is of.
RECURSIVE AddTracesFrom(_, _)
AddTracesFrom(k, fig) ==
    IF k > Len(top_level_tasks) THEN fig
    ELSE LET descendant_end_details == DescendantDetails(k).details
             points == SortByDate(descendant_end_details, 1, <<>>)
         IN AddTracesFrom(k + 1,
                IF descendant_end_details = <<>> THEN fig
                ELSE Append(fig,
                       [root |-> top_level_tasks[k].id,
                        name |-> top_level_tasks[k].name,
                        x |-> [j \in 1..Len(points) |-> points[j].date],
                        y |-> y_axis_map[top_level_tasks[k].name],
                        points |-> points]))

\* lines 216-302
AddTraces ==
    /\ pc = "laid_out"
    /\ traces' = AddTracesFrom(1, <<>>)
    /\ pc' = "charted"
    /\ UNCHANGED <<db, start_cursor, all_results, n_queries, messages, raw_notion_data,
                   df, exc, top_level_tasks, parent_child_map, collected, x_range,
                   y_axis_map, y_tickvals, y_ticktext, y_range, dynamic_height>>

\* line 343; the division is by len(top_level_tasks)
DynamicHeight(num_categories, range) ==
    Max(min_chart_height,
        (num_categories * height_per_actual_category * (range[1] - range[2]))
            \div num_categories)

\* lines 332-346
Render ==
    /\ pc = "charted"
    /\ IF Len(top_level_tasks) = 0
       THEN /\ pc' = "crashed"
            /\ exc' = "ZeroDivisionError@343"
            /\ UNCHANGED <<dynamic_height, messages>>
       ELSE /\ dynamic_height' = DynamicHeight(Len(top_level_tasks), y_range)
            /\ messages' = Append(messages, "plotly_chart")
            /\ pc' = "done"
            /\ UNCHANGED exc
    /\ UNCHANGED <<db, start_cursor, all_results, n_queries, raw_notion_data, df,
                   top_level_tasks, parent_child_map, collected, x_range, y_axis_map,
                   y_tickvals, y_ticktext, y_range, traces>>

\* get_descendant_end_details called for any task of the table, as a caller of the
\* function may
CollectFrom ==
    /\ pc = "indexed"
    /\ \E k \in 1..Len(df) :
         LET result == GetDescendantEndDetails(df[k].id, df, parent_child_map, 1) IN
         /\ collected' = <<Called(df[k].id, result)>>
         /\ pc' = IF result.raised THEN "crashed" ELSE "called"
         /\ exc' = IF result.raised THEN "RecursionError@130" ELSE exc
    /\ UNCHANGED <<db, start_cursor, all_results, n_queries, messages, raw_notion_data,
                   df, top_level_tasks, parent_child_map, x_range, y_axis_map,
                   y_tickvals, y_ticktext, y_range, traces, dynamic_height>>

\* ------------------------------------------------------------- the inputs
\* Records of a small database: two top-level tasks of one name, children with
\* and without a date, and the shapes a hand-kept database has
Pool ==
    { Item(1, Title("Alpha"), "absent", StatusOk("Done"), <<>>),
      Item(2, Title("Alpha"), "absent", StatusOk("Done"), <<>>),
      Item(2, Title("Beta"), "2024-03-15", StatusAbsent, <<>>),
      Item(3, Title("Design"), "2024-01-10", StatusOk("Done"), <<1>>),
      Item(2, Title("Launch"), "2024-02-01", SelectOk("Done"), <<1>>),
      Item(3, Title("Design"), "next week", StatusMismatch, <<1>>),
      Item(2, EmptyTitle, "2024-01-10", StatusOk("Done"), <<1>>),
      Item(1, AbsentTitle, "absent", StatusAbsent, <<>>),
      Item(3, NullTitle, "absent", StatusAbsent, <<>>),
      Item(3, Title("Beta"), "2024-01-10", StatusOk("Done"), <<3>>),
      Item(3, Title("Launch"), "2024-02-01", SelectNull, <<1>>) }

PageResults == {<<>>} \cup {<<item>> : item \in Pool}

\* pages of up to two records, for the fetch alone
FetchResults ==
    LET a == Item(1, Title("Alpha"), "absent", StatusOk("Done"), <<>>)
        b == Item(2, Title("Design"), "2024-01-10", StatusOk("Done"), <<1>>)
    IN {<<>>, <<a>>, <<b>>, <<a, b>>}

\* The databases of up to MaxPages pages: every page answers or raises, and the
\* last one ends the fetch
Databases(results) ==
    LET pages == {FailPage} \cup {OkPage(r, h) : r \in results, h \in BOOLEAN} IN
    UNION {{d \in [1..n -> pages] : ~(d[n].ok /\ d[n].has_more)} : n \in 1..MaxPages}

\* Record lists of 1..MaxTasks records
Lists(items) == UNION {[1..n -> items] : n \in 1..MaxTasks}
Numbered(list) == [k \in 1..Len(list) |-> [list[k] EXCEPT !.id = k]]

\* any ids (also repeated ones, rows of one id next to each other) and any parent,
\* also a missing one and cycles
GraphLists ==
    {list \in Lists({Item(id, Title("Alpha"), "2024-01-10", StatusOk("Done"), Rel(p)) :
                       id \in 1..MaxTasks, p \in 0..MaxTasks}) :
        \A k \in 1..(Len(list) - 1) : list[k].id <= list[k + 1].id}

\* records with and without a title, any parent
TitleLists ==
    {Numbered(list) : list \in
        Lists({Item(1, t, "2024-01-10", StatusOk("Done"), Rel(p)) :
                 t \in {AbsentTitle, EmptyTitle, Title("Alpha")}, p \in 0..MaxTasks})}

\* records with a status and a date, without a status, and without either; any parent
StatusLists ==
    {Numbered(list) : list \in
        Lists({Item(1, Title("Alpha"), c[1], c[2], Rel(p)) :
                 c \in {<<"2024-01-10", StatusOk("Done")>>, <<"2024-01-10", StatusAbsent>>,
                        <<"absent", StatusAbsent>>},
                 p \in 0..MaxTasks})}

Start ==
    /\ start_cursor = None
    /\ all_results = <<>>
    /\ n_queries = 0
    /\ messages = <<>>
    /\ raw_notion_data = <<>>
    /\ df = <<>>
    /\ exc = "none"
    /\ top_level_tasks = <<>>
    /\ parent_child_map = EmptyDict
    /\ collected = <<>>
    /\ x_range = [default |-> TRUE, min |-> NaT, max |-> NaT]
    /\ y_axis_map = EmptyDict
    /\ y_tickvals = <<>>
    /\ y_ticktext = <<>>
    /\ y_range = <<1, 0>>
    /\ traces = <<>>
    /\ dynamic_height = 0

\* the whole render pass over a small database, each of whose records has an id
\* of its own
Init ==
    /\ db \in {d \in Databases(PageResults) :
                  UniqueIds(Concat([k \in 1..Len(d) |-> d[k].results]))}
    /\ pc = "fetch"
    /\ Start

Next ==
    \/ Query
    \/ QueryFail
    \/ Process
    \/ BuildIndex
    \/ CollectAll
    \/ Layout
    \/ AddTraces
    \/ Render

Spec == Init /\ [][Next]_vars

\* the fetch alone
InitFetch ==
    /\ db \in Databases(FetchResults)
    /\ pc = "fetch"
    /\ Start

NextFetch == Query \/ QueryFail

SpecFetch == InitFetch /\ [][NextFetch]_vars

\* the render pass after a one-page fetch of a drawn record list
InitTables ==
    /\ \E list \in GraphLists \cup TitleLists \cup StatusLists :
         /\ db = <<OkPage(list, FALSE)>>
         /\ all_results = list
         /\ raw_notion_data = list
    /\ pc = "fetched"
    /\ start_cursor = None
    /\ n_queries = 1
    /\ messages = <<>>
    /\ df = <<>>
    /\ exc = "none"
    /\ top_level_tasks = <<>>
    /\ parent_child_map = EmptyDict
    /\ collected = <<>>
    /\ x_range = [default |-> TRUE, min |-> NaT, max |-> NaT]
    /\ y_axis_map = EmptyDict
    /\ y_tickvals = <<>>
    /\ y_ticktext = <<>>
    /\ y_range = <<1, 0>>
    /\ traces = <<>>
    /\ dynamic_height = 0

NextTables ==
    \/ Process
    \/ BuildIndex
    \/ CollectAll
    \/ Layout
    \/ AddTraces
    \/ Render

SpecTables == InitTables /\ [][NextTables]_vars

\* the collection called for any task of a drawn record list
NextCollect ==
    \/ Process
    \/ BuildIndex
    \/ CollectFrom

SpecCollect == InitTables /\ [][NextCollect]_vars

\* ------------------------------------------------------------- properties
\* How far the pass has come: 0 fetching, 1 fetched, 2 processed, 3 indexed,
\* 4 collected, 5 laid out, 6 charted, 7 rendered. A pass that ended is placed by
\* its last message, one that crashed by the line that raised.
Position ==
    CASE pc = "fetch" -> 0
      [] pc = "fetched" -> 1
      [] pc = "processed" -> 2
      [] pc = "indexed" -> 3
      [] pc \in {"collected", "called"} -> 4
      [] pc = "laid_out" -> 5
      [] pc = "charted" -> 6
      [] pc = "done" ->
            (IF messages[Len(messages)] = "plotly_chart" THEN 7
             ELSE IF messages[Len(messages)] = "warning" THEN 2 ELSE 1)
      [] pc = "crashed" ->
            (IF exc = "ZeroDivisionError@343" THEN 6
             ELSE IF exc = "RecursionError@130" THEN 3 ELSE 1)

Count(seq, x) == Cardinality({k \in 1..Len(seq) : seq[k] = x})
NoRepeat(seq) == \A a, b \in 1..Len(seq) : a # b => seq[a] # seq[b]
Elems(seq) == {seq[k] : k \in 1..Len(seq)}

\* the first page that ends the fetch: one whose query raises or that has no more
FirstStop(d) ==
    CHOOSE k \in 1..Len(d) :
        /\ ~(d[k].ok /\ d[k].has_more)
        /\ \A j \in 1..(k - 1) : d[j].ok /\ d[j].has_more

\* C2: the fetch returns the results of every page up to the first one with
\* has_more false, in page order, when no query raised; when a query raised it
\* returns the empty list, whatever was fetched before, reports one error and
\* asks for no further page.
C2_FetchAllOrNothing ==
    LET stop == FirstStop(db) IN
    IF pc = "fetch"
    THEN n_queries < stop /\ Count(messages, "error") = 0
    ELSE /\ n_queries = stop
         /\ IF db[stop].ok
            THEN /\ raw_notion_data = Concat([j \in 1..stop |-> db[j].results])
                 /\ Count(messages, "error") = 0
            ELSE /\ raw_notion_data = <<>>
                 /\ Count(messages, "error") = 1

\* C2 witness: a query raised after pages with records had been fetched
C2_Witness ==
    /\ pc = "fetched"
    /\ ~db[FirstStop(db)].ok
    /\ FirstStop(db) >= 3
    /\ Len(all_results) >= 2
    /\ raw_notion_data = <<>>

\* a record whose title is absent or empty
NoTitle(item) ==
    \/ item.name_prop.kind = "absent"
    \/ item.name_prop.kind = "title" /\ item.name_prop.title = <<>>

\* the ids that only records without a title carry
DroppedIds ==
    {raw_notion_data[k].id : k \in {j \in 1..Len(raw_notion_data) :
                                       NoTitle(raw_notion_data[j])}}
    \ {raw_notion_data[k].id : k \in {j \in 1..Len(raw_notion_data) :
                                       ~NoTitle(raw_notion_data[j])}}

\* every id a call of the collection reached or made a point of
CollectedIds ==
    UNION {Elems(collected[k].visited) \cup
           {collected[k].details[j].id : j \in 1..Len(collected[k].details)} :
             k \in 1..Len(collected)}

TracePointIds ==
    UNION {{traces[k].points[j].id : j \in 1..Len(traces[k].points)} :
             k \in 1..Len(traces)}

\* C5: a record whose title is absent or empty never enters the task table, is
\* no Y-axis entry, no point of any series, and neither a key nor a member of the
\* parent-to-children map.
C5_UntitledDropped ==
    /\ \A x \in DroppedIds :
        /\ x \notin IdsOf(df)
        /\ x \notin IdsOf(top_level_tasks)
        /\ x \notin CollectedIds
        /\ x \notin TracePointIds
        /\ \A k \in 1..Len(traces) : traces[k].root # x
        /\ x \notin DOMAIN parent_child_map
        /\ \A p \in DOMAIN parent_child_map : x \notin Elems(parent_child_map[p])
    /\ Unnamed \notin Elems(y_ticktext)
    /\ Position >= 2 =>
          Len(df) = Cardinality({k \in 1..Len(raw_notion_data) :
                                   ~NoTitle(raw_notion_data[k])})

\* C5 witness: a chart was rendered from a list in which a record without a title
\* names a top-level task as its parent and is itself named as a parent
C5_Witness ==
    /\ Position = 7
    /\ \E i, j, k \in 1..Len(raw_notion_data) :
        /\ NoTitle(raw_notion_data[i])
        /\ raw_notion_data[i].id \in DroppedIds
        /\ raw_notion_data[i].relation = <<raw_notion_data[j].id>>
        /\ ~NoTitle(raw_notion_data[j]) /\ raw_notion_data[j].relation = <<>>
        /\ ~NoTitle(raw_notion_data[k])
        /\ raw_notion_data[k].relation = <<raw_notion_data[i].id>>

\* the row the code reads for an id: the first of that id
Row(id) == Loc(df, id)[1]

\* a task of the table that is its own parent, or the parent of its parent
InCycle(id) ==
    \E a, b \in 1..Len(df) :
        /\ df[a].id = id
        /\ \/ df[a].parent = id
           \/ a # b /\ df[a].parent = df[b].id /\ df[b].parent = id

\* the children line 114 reads for an id
ChildrenOf(id) == IF id \in DOMAIN parent_child_map THEN parent_child_map[id] ELSE <<>>

\* C8 (as stated): a descendant whose status is the undetermined sentinel makes
\* no point of any collected list or series, stays in the task table, and the
\* traversal still descends through it to its children.
C8_UndeterminedExcluded ==
    /\ \A k \in 1..Len(collected) : \A j \in 1..Len(collected[k].details) :
          collected[k].details[j].status # Undetermined
    /\ \A k \in 1..Len(traces) : \A j \in 1..Len(traces[k].points) :
          traces[k].points[j].status # Undetermined
    /\ \A k \in 1..Len(collected) : \A j \in 1..Len(collected[k].visited) :
          LET id == collected[k].visited[j] IN
          Row(id).status = Undetermined =>
             /\ id \in IdsOf(df)
             /\ Elems(ChildrenOf(id)) \subseteq Elems(collected[k].visited)

\* C8 (amended): a descendant whose status is the undetermined sentinel makes a
\* point of its root's collected list, and of its root's series, exactly when its
\* date is valid; it stays in the task table, and the traversal still descends
\* through it to its children.
C8_UndeterminedByDateOnly ==
    \A k \in 1..Len(collected) : \A j \in 1..Len(collected[k].visited) :
        LET id == collected[k].visited[j] IN
        Row(id).status = Undetermined =>
           /\ id \in IdsOf(df)
           /\ Row(id).date # NaT <=>
                 \E d \in Elems(collected[k].details) :
                     d.id = id /\ d.status = Undetermined /\ d.date = Row(id).date
           /\ Position >= 6 =>
                 (Row(id).date # NaT <=>
                     \E t \in Elems(traces) :
                         /\ t.root = collected[k].task_id
                         /\ \E d \in Elems(t.points) : d.id = id)
           /\ Elems(ChildrenOf(id)) \subseteq Elems(collected[k].visited)

\* C8 witness: a chart was rendered in which an undetermined task with a date and
\* its child are both points of one series
C8_Witness ==
    /\ Position = 7
    /\ \E t \in Elems(traces) : \E d, c \in Elems(t.points) :
          /\ d.status = Undetermined
          /\ c.id \in Elems(ChildrenOf(d.id))

\* C9: when the ids are unique, every collection started at a top-level task ends
\* without exhausting the recursion, whatever loops the parent references form,
\* and reaches each task at most once over all the top-level tasks: a task is a
\* point of at most one series, and once.
C9_RootCollectionsTerminate ==
    UniqueIds(df) =>
        /\ exc # "RecursionError@130"
        /\ Position >= 4 =>
              /\ Len(collected) = Len(top_level_tasks)
              /\ \A k \in 1..Len(collected) :
                    /\ collected[k].task_id = top_level_tasks[k].id
                    /\ ~collected[k].raised
        /\ NoRepeat(Concat([k \in 1..Len(collected) |-> collected[k].visited]))
        /\ NoRepeat(Concat([k \in 1..Len(collected) |->
                       [j \in 1..Len(collected[k].details) |->
                           collected[k].details[j].id]]))
        /\ NoRepeat(Concat([k \in 1..Len(traces) |->
                       [j \in 1..Len(traces[k].points) |-> traces[k].points[j].id]]))

\* C9 witness: unique ids, a loop in the parent references, and a top-level task
\* whose collection reached a descendant
C9_Witness ==
    /\ Position = 7
    /\ UniqueIds(df)
    /\ \E id \in IdsOf(df) : InCycle(id)
    /\ \E k \in 1..Len(collected) : collected[k].visited # <<>>

\* C1: the collection started at a task that is its own parent, or whose parent
\* names it as parent, ends and returns a list.
C1_CollectionOverCycleEnds ==
    \A k \in 1..Len(collected) :
        InCycle(collected[k].task_id) => ~collected[k].raised

\* the stages of a pass that came out empty
NoRecords == Position >= 1 /\ raw_notion_data = <<>>
AllExcluded ==
    /\ Position >= 1
    /\ raw_notion_data # <<>>
    /\ \A k \in 1..Len(raw_notion_data) : NoTitle(raw_notion_data[k])
NoRoot == Position >= 3 /\ top_level_tasks = <<>>
NoValidDate == Position >= 4 /\ x_range.default

\* C3: a pass that comes out empty at a stage (no record fetched, every record
\* excluded, no top-level task, no descendant with a date) raises no exception and
\* ends with a message or the chart.
C3_EmptyStagesInformational ==
    (NoRecords \/ AllExcluded \/ NoRoot \/ NoValidDate) =>
        /\ pc # "crashed"
        /\ exc = "none"
        /\ pc = "done" => messages # <<>>

\* C4: the loop of process_notion_data (lines 62-93) raises on no record: a record
\* with a property absent, a null payload or a type tag its payload does not match
\* is excluded or becomes a task with the defaults (no date, status undetermined,
\* no parent), and the records after it are processed.
C4_ProcessNeverRaises ==
    /\ exc \notin {"AttributeError@66", "AttributeError@79"}
    /\ \A k \in 1..Len(df) : df[k].status # "None"
    /\ (Position >= 2 \/ exc = "KeyError@99") =>
          Len(df) = Cardinality({k \in 1..Len(raw_notion_data) :
                                   /\ ~NoTitle(raw_notion_data[k])
                                   /\ raw_notion_data[k].name_prop.kind # "null"})

\* C6: the top-level tasks are the tasks whose parent id is null, and no key of the
\* parent-to-children map lists itself as a child.
C6_RootsAndNoSelfChild ==
    /\ Position >= 3 =>
          /\ Len(top_level_tasks) = Cardinality({k \in 1..Len(df) : df[k].parent = None})
          /\ \A k \in 1..Len(top_level_tasks) : top_level_tasks[k].parent = None
    /\ \A p \in DOMAIN parent_child_map : p \notin Elems(parent_child_map[p])

\* C7: for n top-level tasks, n >= 0, the height handed to the renderer is
\* max(min_chart_height, n * height_per_actual_category).
C7_HeightLinearInRoots ==
    /\ exc # "ZeroDivisionError@343"
    /\ Position = 7 =>
          dynamic_height = Max(min_chart_height,
                               Len(top_level_tasks) * height_per_actual_category)

\* C10: there is one tick per top-level task, the i-th in name order sits at
\* i * y_axis_spacing_factor (i from 0), and the series of two top-level tasks are
\* never on one Y position.
C10_OneLinePerRoot ==
    Position >= 5 =>
        /\ Len(y_tickvals) = Len(top_level_tasks)
        /\ Len(y_ticktext) = Len(top_level_tasks)
        /\ \A i \in 1..Len(top_level_tasks) :
              y_axis_map[top_level_tasks[i].name] = (i - 1) * y_axis_spacing_factor
        /\ \A a, b \in 1..Len(traces) : a # b => traces[a].y # traces[b].y
        /\ \A a \in 1..Len(traces) : \A i \in 1..Len(top_level_tasks) :
              traces[a].root = top_level_tasks[i].id =>
                 traces[a].y = (i - 1) * y_axis_spacing_factor

====
